---- MODULE Spec2Model ----
(***************************************************************************)
(* Model of FileProcessingThread.run (range_dataset_ui.py): the pipeline   *)
(* that pairs annotation files with image files, patches <filename> and    *)
(* <path> in every annotation and renames both files of a pair to the      *)
(* pair's 1-based index.                                                    *)
(*                                                                         *)
(* File names are sequences of one-character strings, compared by code     *)
(* point as Python compares str.  A directory is a function from the names *)
(* it holds to their contents (POSIX, case-sensitive names).               *)
(***************************************************************************)
EXTENDS Integers, Sequences, FiniteSets, TLC

\* Largest number of entries a directory holds initially.
MaxFiles == 3

----------------------------------------------------------------------------
\* Characters and strings

Digits == <<"0", "1", "2", "3", "4", "5", "6", "7", "8", "9">>
UpperCase == <<"A", "B", "C", "D", "E", "F", "G", "H", "I", "J", "K", "L", "M",
               "N", "O", "P", "Q", "R", "S", "T", "U", "V", "W", "X", "Y", "Z">>
LowerCase == <<"a", "b", "c", "d", "e", "f", "g", "h", "i", "j", "k", "l", "m",
               "n", "o", "p", "q", "r", "s", "t", "u", "v", "w", "x", "y", "z">>

IndexIn(seq, c) == CHOOSE i \in 1..Len(seq) : seq[i] = c
IsIn(seq, c) == \E i \in 1..Len(seq) : seq[i] = c

Range(seq) == {seq[i] : i \in 1..Len(seq)}
Chars == {"."} \cup Range(Digits) \cup Range(UpperCase) \cup Range(LowerCase)

\* ord(c) for the characters file names are made of.
CodeTable ==
    [c \in Chars |->
        IF c = "." THEN 46
        ELSE IF IsIn(Digits, c) THEN 47 + IndexIn(Digits, c)
        ELSE IF IsIn(UpperCase, c) THEN 64 + IndexIn(UpperCase, c)
        ELSE 96 + IndexIn(LowerCase, c)]
Code(c) == CodeTable[c]

\* str.lower() on one character, then on a string.
LowerTable ==
    [c \in Chars |->
        IF IsIn(UpperCase, c) THEN LowerCase[IndexIn(UpperCase, c)] ELSE c]
LowerChar(c) == LowerTable[c]
Lower(s) == [i \in 1..Len(s) |-> LowerChar(s[i])]

\* str.endswith
EndsWith(s, suffix) ==
    /\ Len(s) >= Len(suffix)
    /\ SubSeq(s, Len(s) - Len(suffix) + 1, Len(s)) = suffix

\* a < b for Python str: code point order, a proper prefix sorts first.
RECURSIVE StrLess(_, _)
StrLess(a, b) ==
    IF b = <<>> THEN FALSE
    ELSE IF a = <<>> THEN TRUE
    ELSE IF Code(a[1]) # Code(b[1]) THEN Code(a[1]) < Code(b[1])
    ELSE StrLess(Tail(a), Tail(b))

\* sorted(names): the i-th element is the name with i - 1 names below it.
Rank(x, S) == Cardinality({y \in S : StrLess(y, x)}) + 1
Sorted(S) == [i \in 1..Cardinality(S) |-> CHOOSE x \in S : Rank(x, S) = i]

\* f"{idx}": decimal digits of a natural number.
RECURSIVE Str(_)
Str(n) == IF n < 10 THEN <<Digits[n + 1]>>
          ELSE Str(n \div 10) \o <<Digits[(n % 10) + 1]>>

\* os.path.splitext(f): <<root, ext>>.  The extension starts at the last dot,
\* unless only dots precede it (a leading-dot name has no extension).
Dots(f) == {i \in 1..Len(f) : f[i] = "."}
LastDot(f) == CHOOSE i \in Dots(f) : \A j \in Dots(f) : j <= i
SplitExt(f) ==
    IF Dots(f) # {} /\ \E k \in 1..(LastDot(f) - 1) : f[k] # "."
    THEN <<SubSeq(f, 1, LastDot(f) - 1), SubSeq(f, LastDot(f), Len(f))>>
    ELSE <<f, <<>>>>

DotXml == <<".", "x", "m", "l">>
allowedImgExts == { <<".", "j", "p", "g">>,
                    <<".", "j", "p", "e", "g">>,
                    <<".", "p", "n", "g">> }

IsImgFileAnyExt(f) == SplitExt(f)[2] # <<>>
\* The two list-comprehension filters.
IsAnnFile(f) == EndsWith(Lower(f), DotXml)
IsImgFile(f) == Lower(SplitExt(f)[2]) \in allowedImgExts

ImgExtAsWritten(imgFile) == SplitExt(imgFile)[2]
\* img_ext and the two destination names of pair idx.
ImgExt(imgFile) == Lower(SplitExt(imgFile)[2])
NewAnnName(idx) == Str(idx) \o DotXml
NewImgName(idx, imgFile) == Str(idx) \o ImgExt(imgFile)

\* os.path.join(self.imgDir, name)
JoinImgDir(name) == <<"imgDir", name>>

----------------------------------------------------------------------------
\* Directory contents

\* An element the record does not have (root.find(...) is None).
NoField == <<>>

\* The names the initial directories draw their entries from.
AnnNames == { <<"1", ".", "x", "m", "l">>,
              <<"2", ".", "x", "m", "l">>,
              <<"3", ".", "x", "m", "l">>,
              <<"0", ".", "x", "m", "l">>,
              <<"a", ".", "X", "M", "L">>,
              <<"n", ".", "t", "x", "t">> }
ImgNames == { <<"1", ".", "j", "p", "g">>,
              <<"2", ".", "p", "n", "g">>,
              <<"3", ".", "j", "p", "g">>,
              <<"0", ".", "j", "p", "e", "g">>,
              <<"a", ".", "J", "P", "G">>,
              <<"n", ".", "t", "x", "t">> }

\* What an annotation file holds before the run: text ET.parse rejects, a
\* record without <filename> and <path>, or a record whose two elements name
\* the image with the same root.  body stands for the rest of the record.
Kinds == {"malformed", "bare", "linked"}
Partner(f) == CHOOSE g \in ImgNames : SplitExt(g)[1] = SplitExt(f)[1]
InitRecord(f, kind) ==
    IF kind = "malformed"
    THEN [ok |-> FALSE, filename |-> NoField, path |-> NoField, body |-> f]
    ELSE IF kind = "bare"
    THEN [ok |-> TRUE, filename |-> NoField, path |-> NoField, body |-> f]
    ELSE [ok |-> TRUE, filename |-> Partner(f),
          path |-> JoinImgDir(Partner(f)), body |-> f]
InitImage(g) == [data |-> g]
EmptyDir == [n \in {} |-> NoField]

AnnDirsOver(names, kinds) ==
    { [f \in S |-> InitRecord(f, k[f])] :
        <<S, k>> \in { <<S, k>> \in
            UNION { {S1} \X [S1 -> kinds] :
                    S1 \in {S2 \in SUBSET names : Cardinality(S2) <= MaxFiles} } :
            \A f \in S : ~IsAnnFile(f) => k[f] = "malformed" } }
ImgDirsOver(names) ==
    { [g \in S |-> InitImage(g)] :
        S \in {S2 \in SUBSET names : Cardinality(S2) <= MaxFiles} }
InitAnnDirs == AnnDirsOver(AnnNames, Kinds)
InitImgDirs == ImgDirsOver(ImgNames)

\* Directories of numbered files only: 1.xml, 2.xml, ... and 1.jpg, 2.jpg, ...
NumberedAnnDirs ==
    AnnDirsOver({Str(i) \o DotXml : i \in 1..MaxFiles}, {"malformed", "bare"})
NumberedImgDirs ==
    ImgDirsOver({Str(i) \o <<".", "j", "p", "g">> : i \in 1..MaxFiles})

----------------------------------------------------------------------------
\* The pieces of run()

MissingDirImageFirst(annOk, imgOk) ==
    IF ~imgOk THEN "imgDir" ELSE IF ~annOk THEN "annDir" ELSE "none"
\* Lines 29-32: the directory the run stops on, annotation directory first.
MissingDir(annOk, imgOk) ==
    IF ~annOk THEN "annDir" ELSE IF ~imgOk THEN "imgDir" ELSE "none"

\* Lines 35-39: the two filtered, sorted listings.
ListAnn(fs) == Sorted({f \in DOMAIN fs : IsAnnFile(f)})
ListImg(fs) == Sorted({f \in DOMAIN fs : IsImgFile(f)})

CountMismatchOneSided(annL, imgL) == Len(annL) < Len(imgL)
\* Line 40.
CountMismatch(annL, imgL) == Len(annL) # Len(imgL)

\* Line 43: list(zip(annList, imgList)).
Min(a, b) == IF a < b THEN a ELSE b
Zip(annL, imgL) == [i \in 1..Min(Len(annL), Len(imgL)) |-> <<annL[i], imgL[i]>>]

TotalStepsTwoPerPair(ps) == Len(ps) * 2
\* Line 44.
TotalSteps(ps) == Len(ps) * 3

\* Lines 59-69: the record with <filename> and <path> set (created if absent).
PatchRecord(rec, i, imgFile) ==
    [rec EXCEPT !.filename = NewImgName(i, imgFile),
                !.path = JoinImgDir(NewImgName(i, imgFile))]

\* Lines 82-83 and 94-95: if os.path.exists(dst): os.remove(dst).
RemoveIfExists(fs, dst) ==
    IF dst \in DOMAIN fs THEN [n \in DOMAIN fs \ {dst} |-> fs[n]] ELSE fs

\* Lines 84 and 96: os.rename(src, dst) of an existing src.
Rename(fs, src, dst) ==
    [n \in (DOMAIN fs \ {src}) \cup {dst} |-> IF n = dst THEN fs[src] ELSE fs[n]]

\* Lines 103-107: the lines of the final message.
FirstN(s, n) == SubSeq(s, 1, Min(Len(s), n))
ShownErrors == 5
ErrorLines(errs) == [i \in 1..Len(errs) |-> <<"error", errs[i]>>]
BuildMsgOverflowFromFive(n, errs) ==
    <<<<"summary", n>>>>
    \o (IF Len(errs) > 0
        THEN <<<<"header">>>> \o ErrorLines(FirstN(errs, ShownErrors))
             \o (IF Len(errs) >= ShownErrors
                 THEN <<<<"more", Len(errs) - ShownErrors>>>> ELSE <<>>)
        ELSE <<>>)
BuildMsg(n, errs) ==
    <<<<"summary", n>>>>
    \o (IF Len(errs) > 0
        THEN <<<<"header">>>> \o ErrorLines(FirstN(errs, ShownErrors))
             \o (IF Len(errs) > ShownErrors
                 THEN <<<<"more", Len(errs) - ShownErrors>>>> ELSE <<>>)
        ELSE <<>>)

SuccessAlways(errs) == TRUE
\* Line 108: the success flag.
Success(errs) == Len(errs) = 0

\* Line 110: the message of the outer handler.
FatalMsg(exc) == <<<<"fatal", exc>>>>

ProgressOneAhead(cur, total) == <<"progress", cur + 1, total>>
\* The three signals.
Progress(cur, total) == <<"progress", cur, total>>
Log(what, arg) == <<"log", what, arg>>
Finished(success, msg) == <<"finished", success, msg>>

----------------------------------------------------------------------------
\* State

VARIABLES
    annExists, imgExists,   \* os.path.isdir of the two directories
    annFS, imgFS,           \* the entries of the two directories
    annFS0, imgFS0,         \* the entries when the run started
    pc,                     \* where run() is
    annList, imgList,       \* the locals of run()
    pairs, totalSteps, currentProgress, idx,
    errorList,
    events,                 \* the signals emitted, in order
    fsOps,                  \* the file-system calls made, in order
    active,                 \* started workers whose run() has not ended
    startEnabled,           \* startButton.isEnabled()
    progressBar,            \* maximum, value and format of the progress bar
    logText,                \* the lines of logTextEdit
    dialog,                 \* the last message box shown
    handled,                \* how many signals the main thread has handled
    runs                    \* how many workers were started

workerVars == <<annExists, imgExists, annFS, imgFS, annFS0, imgFS0, pc, annList,
                imgList, pairs, totalSteps, currentProgress, idx, errorList,
                events, fsOps>>
guiVars == <<startEnabled, progressBar, logText, dialog, handled, runs>>
vars == <<workerVars, active, guiVars>>

\* A step of run() that is not its last, and the step run() ends with.
WorkerGoesOn == UNCHANGED <<active, guiVars>>
WorkerReturns == active' = active - 1 /\ UNCHANGED guiVars

dirVars == <<annExists, imgExists, annFS0, imgFS0>>
listVars == <<annList, imgList, pairs, totalSteps>>

InitWith(annDirs, imgDirs) ==
    /\ annExists \in BOOLEAN
    /\ imgExists \in BOOLEAN
    /\ annFS \in (IF annExists THEN annDirs ELSE {EmptyDir})
    /\ imgFS \in (IF imgExists THEN imgDirs ELSE {EmptyDir})
    /\ annFS0 = annFS
    /\ imgFS0 = imgFS
    /\ pc = "check"
    /\ annList = <<>>
    /\ imgList = <<>>
    /\ pairs = <<>>
    /\ totalSteps = 0
    /\ currentProgress = 0
    /\ idx = 0
    /\ errorList = <<>>
    /\ events = <<>>
    /\ fsOps = <<>>
    /\ active = 1
    /\ startEnabled = FALSE
    /\ progressBar = [max |-> 100, value |-> -1, format |-> "processing"]
    /\ logText = <<>>
    /\ dialog = "none"
    /\ handled = 0
    /\ runs = 1

Init == InitWith(InitAnnDirs, InitImgDirs)

\* The runs on directories of numbered files only.
NumberedInit == InitWith(NumberedAnnDirs, NumberedImgDirs)

\* Lines 29-32 (and 109-110 when a directory is missing).
CheckDirs ==
    /\ pc = "check"
    /\ LET missing == MissingDir(annExists, imgExists)
       IN  IF missing # "none"
           THEN /\ events' = Append(events,
                        Finished(FALSE, FatalMsg(<<"FileNotFoundError", missing>>)))
                /\ pc' = "done"
                /\ WorkerReturns
           ELSE /\ pc' = "build"
                /\ UNCHANGED events
                /\ WorkerGoesOn
    /\ UNCHANGED <<dirVars, annFS, imgFS, listVars, currentProgress, idx,
                   errorList, fsOps>>

\* The head of the for loop at line 49, entered for pair i.
LoopHead(i, n) ==
    IF i <= n THEN pc' = "patch" /\ idx' = i
    ELSE pc' = "finish" /\ UNCHANGED idx

\* Lines 35-47 (and 109-110 when the counts differ).
BuildPairs ==
    /\ pc = "build"
    /\ annList' = ListAnn(annFS)
    /\ imgList' = ListImg(imgFS)
    /\ fsOps' = fsOps \o << <<"listdir", "annDir">>, <<"listdir", "imgDir">> >>
    /\ IF CountMismatch(annList', imgList')
       THEN /\ events' = Append(events, Finished(FALSE,
                    FatalMsg(<<"ValueError", Len(annList'), Len(imgList')>>)))
            /\ pc' = "done"
            /\ WorkerReturns
            /\ UNCHANGED <<pairs, totalSteps, currentProgress, idx>>
       ELSE /\ pairs' = Zip(annList', imgList')
            /\ totalSteps' = TotalSteps(pairs')
            /\ currentProgress' = 0
            /\ events' = events \o << Progress(0, totalSteps'),
                                      Log("found", Len(pairs')) >>
            /\ LoopHead(1, Len(pairs'))
            /\ WorkerGoesOn
    /\ UNCHANGED <<dirVars, annFS, imgFS, errorList>>

annFile == pairs[idx][1]
imgFile == pairs[idx][2]

ContinueFallsThrough == pc' = "renameAnn" /\ UNCHANGED idx
ContinueBreaks == pc' = "finish" /\ UNCHANGED idx
\* Line 77: continue.
Continue == LoopHead(idx + 1, Len(pairs))

\* Lines 57-77: step 1 of pair idx.
Patch ==
    /\ pc = "patch"
    /\ IF annFile \in DOMAIN annFS /\ annFS[annFile].ok
       THEN /\ annFS' = [annFS EXCEPT ![annFile] = PatchRecord(@, idx, imgFile)]
            /\ fsOps' = fsOps \o << <<"parse", annFile>>, <<"write", annFile>> >>
            /\ currentProgress' = currentProgress + 1
            /\ events' = events \o << Progress(currentProgress', totalSteps),
                                      Log("patched", annFile) >>
            /\ pc' = "renameAnn"
            /\ UNCHANGED <<errorList, idx>>
       ELSE /\ fsOps' = Append(fsOps, <<"parse", annFile>>)
            /\ errorList' = Append(errorList, <<"patch", annFile,
                    IF annFile \in DOMAIN annFS THEN "ParseError"
                                                ELSE "FileNotFoundError">>)
            /\ Continue
            /\ UNCHANGED <<annFS, currentProgress, events>>
    /\ WorkerGoesOn
    /\ UNCHANGED <<dirVars, imgFS, listVars>>

\* The calls of one rename step: exists, remove if it exists, rename.
RenameOps(dir, fs, src, dst) ==
    << <<"exists", dir, dst>> >>
    \o (IF dst \in DOMAIN fs THEN << <<"remove", dir, dst>> >> ELSE <<>>)
    \o << <<"rename", dir, src, dst>> >>

\* Step 2 with a handler that gives up on the pair.
RenameAnnSkipsImage ==
    /\ pc = "renameAnn"
    /\ LET dst == NewAnnName(idx)
           cleared == RemoveIfExists(annFS, dst)
       IN  /\ fsOps' = fsOps \o RenameOps("annDir", annFS, annFile, dst)
           /\ IF annFile \in DOMAIN cleared
              THEN /\ annFS' = Rename(cleared, annFile, dst)
                   /\ currentProgress' = currentProgress + 1
                   /\ events' = events \o << Progress(currentProgress', totalSteps),
                                             Log("renamedAnn", dst) >>
                   /\ pc' = "renameImg"
                   /\ UNCHANGED <<errorList, idx>>
              ELSE /\ annFS' = cleared
                   /\ errorList' = Append(errorList,
                            <<"renameAnn", annFile, "FileNotFoundError">>)
                   /\ LoopHead(idx + 1, Len(pairs))
                   /\ UNCHANGED <<currentProgress, events>>
    /\ WorkerGoesOn
    /\ UNCHANGED <<dirVars, imgFS, listVars>>

\* Lines 80-89: step 2 of pair idx.
RenameAnn ==
    /\ pc = "renameAnn"
    /\ LET dst == NewAnnName(idx)
           cleared == RemoveIfExists(annFS, dst)
       IN  /\ fsOps' = fsOps \o RenameOps("annDir", annFS, annFile, dst)
           /\ IF annFile \in DOMAIN cleared
              THEN /\ annFS' = Rename(cleared, annFile, dst)
                   /\ currentProgress' = currentProgress + 1
                   /\ events' = events \o << Progress(currentProgress', totalSteps),
                                             Log("renamedAnn", dst) >>
                   /\ UNCHANGED errorList
              ELSE /\ annFS' = cleared
                   /\ errorList' = Append(errorList,
                            <<"renameAnn", annFile, "FileNotFoundError">>)
                   /\ UNCHANGED <<currentProgress, events>>
    /\ pc' = "renameImg"
    /\ WorkerGoesOn
    /\ UNCHANGED <<dirVars, imgFS, listVars, idx>>

\* Lines 92-101: step 3 of pair idx, then the next pair.
RenameImg ==
    /\ pc = "renameImg"
    /\ LET dst == NewImgName(idx, imgFile)
           cleared == RemoveIfExists(imgFS, dst)
       IN  /\ fsOps' = fsOps \o RenameOps("imgDir", imgFS, imgFile, dst)
           /\ IF imgFile \in DOMAIN cleared
              THEN /\ imgFS' = Rename(cleared, imgFile, dst)
                   /\ currentProgress' = currentProgress + 1
                   /\ events' = events \o << Progress(currentProgress', totalSteps),
                                             Log("renamedImg", dst) >>
                   /\ UNCHANGED errorList
              ELSE /\ imgFS' = cleared
                   /\ errorList' = Append(errorList,
                            <<"renameImg", imgFile, "FileNotFoundError">>)
                   /\ UNCHANGED <<currentProgress, events>>
    /\ LoopHead(idx + 1, Len(pairs))
    /\ WorkerGoesOn
    /\ UNCHANGED <<dirVars, annFS, listVars>>

\* Lines 103-108.
Finish ==
    /\ pc = "finish"
    /\ events' = Append(events,
            Finished(Success(errorList), BuildMsg(Len(pairs), errorList)))
    /\ pc' = "done"
    /\ WorkerReturns
    /\ UNCHANGED <<dirVars, annFS, imgFS, listVars, currentProgress, idx,
                   errorList, fsOps>>

Next == CheckDirs \/ BuildPairs \/ Patch \/ RenameAnn \/ RenameImg \/ Finish

Spec == Init /\ [][Next]_vars

\* run() is one thread that is never cancelled: every step it can take it takes.
FairSpec == NumberedInit /\ [][Next]_vars /\ WF_vars(Next)

----------------------------------------------------------------------------
\* The front end: MainWindow and the worker it starts

\* How many times the start button is used.
MaxRuns == 2

\* The window on directories of at most two numbered files.
WindowAnnDirs ==
    AnnDirsOver({Str(i) \o DotXml : i \in 1..2}, {"malformed", "bare"})
WindowImgDirs ==
    ImgDirsOver({Str(i) \o <<".", "j", "p", "g">> : i \in 1..2})

\* After MainWindow.__init__ (lines 113-157): no worker yet.
WindowInit ==
    /\ annExists \in BOOLEAN
    /\ imgExists \in BOOLEAN
    /\ annFS \in (IF annExists THEN WindowAnnDirs ELSE {EmptyDir})
    /\ imgFS \in (IF imgExists THEN WindowImgDirs ELSE {EmptyDir})
    /\ annFS0 = annFS
    /\ imgFS0 = imgFS
    /\ pc = "idle"
    /\ annList = <<>>
    /\ imgList = <<>>
    /\ pairs = <<>>
    /\ totalSteps = 0
    /\ currentProgress = 0
    /\ idx = 0
    /\ errorList = <<>>
    /\ events = <<>>
    /\ fsOps = <<>>
    /\ active = 0
    /\ startEnabled = TRUE
    /\ progressBar = [max |-> 100, value |-> -1, format |-> "waiting"]
    /\ logText = <<>>
    /\ dialog = "none"
    /\ handled = 0
    /\ runs = 0

\* Lines 164-184, called by a click on the enabled start button; annText and
\* imgText are the stripped texts of the two line edits, and the button is
\* left enabled or not as buttonAfter says.
StartProcessingLeaving(buttonAfter) ==
    /\ startEnabled
    /\ runs < MaxRuns
    /\ \E annText, imgText \in {"", "dir"} :
        IF annText = "" \/ imgText = ""
        THEN /\ dialog' = "inputError"
             /\ UNCHANGED <<workerVars, active, startEnabled, progressBar,
                            logText, handled, runs>>
        ELSE /\ startEnabled' = buttonAfter
             /\ logText' = <<>>
             /\ progressBar' = [progressBar EXCEPT !.format = "processing"]
             /\ active' = active + 1
             /\ runs' = runs + 1
             /\ handled' = 0
             /\ pc' = "check"
             /\ annFS0' = annFS
             /\ imgFS0' = imgFS
             /\ annList' = <<>>
             /\ imgList' = <<>>
             /\ pairs' = <<>>
             /\ totalSteps' = 0
             /\ currentProgress' = 0
             /\ idx' = 0
             /\ errorList' = <<>>
             /\ events' = <<>>
             /\ fsOps' = <<>>
             /\ UNCHANGED <<annExists, imgExists, annFS, imgFS, dialog>>

StartProcessingKeepsButton == StartProcessingLeaving(TRUE)
\* Line 176: self.startButton.setEnabled(False).
StartProcessing == StartProcessingLeaving(FALSE)

\* The signals are queued to the main thread, which handles them in order.
NextSignal == events[handled + 1]

\* Lines 186-188.
UpdateProgress ==
    /\ handled < Len(events)
    /\ NextSignal[1] = "progress"
    /\ progressBar' = [progressBar EXCEPT !.max = NextSignal[3],
                                          !.value = NextSignal[2]]
    /\ handled' = handled + 1
    /\ UNCHANGED <<workerVars, active, startEnabled, logText, dialog, runs>>

\* Lines 190-193.
OutputLog ==
    /\ handled < Len(events)
    /\ NextSignal[1] = "log"
    /\ logText' = Append(logText, <<NextSignal[2], NextSignal[3]>>)
    /\ handled' = handled + 1
    /\ UNCHANGED <<workerVars, active, startEnabled, progressBar, dialog, runs>>

\* Lines 195-201.
ProcessingFinished ==
    /\ handled < Len(events)
    /\ NextSignal[1] = "finished"
    /\ startEnabled' = TRUE
    /\ progressBar' = [progressBar EXCEPT
            !.format = IF NextSignal[2] THEN "finished" ELSE "failed"]
    /\ dialog' = IF NextSignal[2] THEN "information" ELSE "critical"
    /\ handled' = handled + 1
    /\ UNCHANGED <<workerVars, active, logText, runs>>

WindowNext ==
    \/ StartProcessing
    \/ UpdateProgress \/ OutputLog \/ ProcessingFinished
    \/ CheckDirs \/ BuildPairs \/ Patch \/ RenameAnn \/ RenameImg \/ Finish

\* The worker thread keeps running and the event loop keeps delivering.
WindowSpec ==
    /\ WindowInit
    /\ [][WindowNext]_vars
    /\ WF_vars(Next)
    /\ WF_vars(UpdateProgress \/ OutputLog \/ ProcessingFinished)

----------------------------------------------------------------------------
\* Vocabulary of the properties

Names(fs) == DOMAIN fs
Terminal == events[Len(events)]
IsProgress(e) == e[1] = "progress"
IsLog(e) == e[1] = "log"
IsFinished(e) == e[1] = "finished"
ProgressEvents == SelectSeq(events, IsProgress)
LogEvents == SelectSeq(events, IsLog)
FinishedEvents == SelectSeq(events, IsFinished)

\* The filtered entries of the directories the run started on.
AnnCandidates0 == {f \in Names(annFS0) : IsAnnFile(f)}
ImgCandidates0 == {g \in Names(imgFS0) : IsImgFile(g)}
DirsExist == annExists /\ imgExists
Mismatch0 == DirsExist /\ Cardinality(AnnCandidates0) # Cardinality(ImgCandidates0)
\* The run got past pair building.
Paired0 == DirsExist /\ Cardinality(AnnCandidates0) = Cardinality(ImgCandidates0)

\* The directories hold exactly 1.xml..N.xml and 1.<ext>..N.<ext>, N >= 1, every
\* annotation parses and already names its image: the result of an earlier run.
Normalized0 ==
    /\ DirsExist
    /\ Names(annFS0) # {}
    /\ LET N == Cardinality(Names(annFS0))
       IN  /\ Names(annFS0) = {Str(i) \o DotXml : i \in 1..N}
           /\ Cardinality(Names(imgFS0)) = N
           /\ \A i \in 1..N : \E g \in Names(imgFS0) :
                /\ SplitExt(g)[1] = Str(i)
                /\ SplitExt(g)[2] \in allowedImgExts
                /\ annFS0[Str(i) \o DotXml].ok
                /\ annFS0[Str(i) \o DotXml].filename = g
                /\ annFS0[Str(i) \o DotXml].path = JoinImgDir(g)

----------------------------------------------------------------------------
\* C1: a run on an already-normalized dataset ends with success and no error
\* recorded, and leaves the names of both directories and the content of
\* every annotation as they were.
C1_RerunIdempotent ==
    (pc = "done" /\ Normalized0) =>
        /\ Terminal[2] = TRUE
        /\ errorList = <<>>
        /\ Names(annFS) = Names(annFS0)
        /\ Names(imgFS) = Names(imgFS0)
        /\ \A f \in Names(annFS0) : f \in Names(annFS) /\ annFS[f] = annFS0[f]

\* C2: when the filtered counts differ, no file of either directory is ever
\* changed, no progress event is emitted, only the two listings touch the
\* file system, and the run ends with a failure event.
C2_MismatchLeavesFilesAlone ==
    Mismatch0 =>
        /\ annFS = annFS0
        /\ imgFS = imgFS0
        /\ ProgressEvents = <<>>
        /\ \A k \in 1..Len(fsOps) : fsOps[k][1] = "listdir"
        /\ pc = "done" => (IsFinished(Terminal) /\ Terminal[2] = FALSE)

C2_Witness ==
    /\ pc = "done"
    /\ Mismatch0
    /\ AnnCandidates0 # {}
    /\ ImgCandidates0 # {}
    /\ fsOps # <<>>

\* C3: a rename step that finds a file at its destination name leaves the
\* destination holding the content of the pair's own file (the patched
\* annotation in step 2, the pair's image in step 3).
C3_DestinationHoldsRenamed ==
    [][ /\ (pc = "renameAnn" /\ NewAnnName(idx) \in Names(annFS)) =>
            /\ NewAnnName(idx) \in Names(annFS')
            /\ annFile \in Names(annFS)
            /\ annFS'[NewAnnName(idx)] = annFS[annFile]
        /\ (pc = "renameImg" /\ NewImgName(idx, imgFile) \in Names(imgFS)) =>
            /\ NewImgName(idx, imgFile) \in Names(imgFS')
            /\ imgFile \in Names(imgFS)
            /\ imgFS'[NewImgName(idx, imgFile)] = imgFS[imgFile]
      ]_vars

\* C4: a pair whose annotation does not parse records exactly one error,
\* attempts neither rename (both directories stay as they are) and hands
\* over to the next pair; the run then ends with every pair visited, the
\* failed pair's files never a rename source, success = false and a message
\* giving the number of pairs.
PatchErrorAt(j) ==
    \E k \in 1..Len(errorList) :
        errorList[k][1] = "patch" /\ errorList[k][2] = pairs[j][1]
ErrorsOfPair(j) ==
    {k \in 1..Len(errorList) : errorList[k][2] \in {pairs[j][1], pairs[j][2]}}
RenameSources ==
    {fsOps[k][3] : k \in {n \in 1..Len(fsOps) : fsOps[n][1] = "rename"}}
ParsedFiles ==
    {fsOps[k][2] : k \in {n \in 1..Len(fsOps) : fsOps[n][1] = "parse"}}
C5_PairPatchedAndRenamed ==
    [][ ( /\ pc = "renameImg"
          /\ errorList' = errorList
          /\ \A k \in 1..Len(errorList) : errorList[k][2] # annFile ) =>
        LET newImg == Str(idx) \o Lower(SplitExt(imgFile)[2])
            newAnn == Str(idx) \o DotXml
        IN  /\ newAnn \in Names(annFS')
            /\ newImg \in Names(imgFS')
            /\ annFS'[newAnn].filename = newImg
            /\ annFS'[newAnn].path = JoinImgDir(newImg)
            /\ annFile \notin Names(annFS')
            /\ imgFile \notin Names(imgFS')
      ]_vars

\* A pair with an upper-case image extension went through all three steps.
C5_Witness ==
    /\ pc = "finish"
    /\ Len(pairs) = 1
    /\ errorList = <<>>
    /\ currentProgress = 3
    /\ SplitExt(pairs[1][2])[2] # Lower(SplitExt(pairs[1][2])[2])
    /\ <<"1", ".", "j", "p", "g">> \in Names(imgFS)

\* C6: past pair building there are exactly N pairs, pair i holds the i-th
\* name of each filtered directory in code point order, every progress event
\* carries the total 3N, and a run without errors ends with the last progress
\* event at 3N of 3N.
C6_PositionalPairsAndTotal ==
    LET N == Cardinality(AnnCandidates0)
    IN  /\ \A k \in 1..Len(ProgressEvents) : ProgressEvents[k][3] = 3 * N
        /\ (Paired0 /\ pc \notin {"check", "build"}) =>
            /\ Len(pairs) = N
            /\ {pairs[i][1] : i \in 1..N} = AnnCandidates0
            /\ {pairs[i][2] : i \in 1..N} = ImgCandidates0
            /\ \A i, j \in 1..N : i < j =>
                /\ StrLess(pairs[i][1], pairs[j][1])
                /\ StrLess(pairs[i][2], pairs[j][2])
            /\ ProgressEvents # <<>>
            /\ (pc = "done" /\ errorList = <<>>) =>
                ProgressEvents[Len(ProgressEvents)] = <<"progress", 3 * N, 3 * N>>

\* Two pairs, digits sorting before letters, all six steps done.
C6_Witness ==
    /\ pc = "done"
    /\ errorList = <<>>
    /\ Len(pairs) = 2
    /\ pairs[1] = << <<"0", ".", "x", "m", "l">>, <<"0", ".", "j", "p", "e", "g">> >>
    /\ pairs[2] = << <<"a", ".", "X", "M", "L">>, <<"a", ".", "J", "P", "G">> >>
    /\ ProgressEvents[Len(ProgressEvents)] = <<"progress", 6, 6>>

\* C7: with a directory missing the run lists nothing, changes nothing and
\* emits one event only, the failure naming the missing directory, the
\* annotation directory when both are missing.
C7_MissingDirectoryAborts ==
    ~DirsExist =>
        /\ annFS = annFS0
        /\ imgFS = imgFS0
        /\ fsOps = <<>>
        /\ pc \in {"check", "done"}
        /\ pc = "check" => events = <<>>
        /\ pc = "done" =>
            events = << <<"finished", FALSE,
                          << <<"fatal", <<"FileNotFoundError",
                                IF ~annExists THEN "annDir" ELSE "imgDir">> >> >> >> >>

C7_Witness ==
    /\ pc = "done"
    /\ ~annExists
    /\ ~imgExists
    /\ Terminal[3][1][2][2] = "annDir"

\* C8 as stated: at the end of every run, aborted or not, success is true
\* exactly when no error was recorded.
C8_SuccessIffNoErrors ==
    pc = "done" => (Terminal[2] = TRUE <=> errorList = <<>>)

\* C8 amended: success is true exactly when the run got past pair building
\* and recorded no error; an aborted run reports failure with no error
\* recorded.
C8_SuccessIffPairedAndNoErrors ==
    pc = "done" =>
        /\ IsFinished(Terminal)
        /\ Terminal[2] = TRUE <=> (Paired0 /\ errorList = <<>>)
        /\ ~Paired0 => errorList = <<>>

C8_Witness ==
    /\ pc = "done"
    /\ Mismatch0
    /\ errorList = <<>>
    /\ Terminal[2] = FALSE

\* C9: a run emits its one terminal event last, progress events count
\* 0, 1, 2, ... each followed by its log line, emitted events are never
\* withdrawn or reordered, every pair is visited before the terminal event,
\* and every run reaches the terminal event.
IsPrefix(a, b) == Len(a) <= Len(b) /\ SubSeq(b, 1, Len(a)) = a
C9_EventOrder ==
    /\ Len(FinishedEvents) = (IF pc = "done" THEN 1 ELSE 0)
    /\ pc = "done" => IsFinished(Terminal)
    /\ \A k \in 1..Len(ProgressEvents) : ProgressEvents[k][2] = k - 1
    /\ \A k \in 1..Len(events) :
            IsProgress(events[k]) => (k < Len(events) /\ IsLog(events[k + 1]))
    /\ Len(LogEvents) = Len(ProgressEvents)
    /\ (pc = "done" /\ Paired0) =>
            /\ Len(pairs) = Cardinality(AnnCandidates0)
            /\ \A j \in 1..Len(pairs) : pairs[j][1] \in ParsedFiles
C9_OneTerminalEventLast ==
    /\ []C9_EventOrder
    /\ [][IsPrefix(events, events')]_vars
    /\ <>(pc = "done")

\* Three pairs, the first not parsing, the others failing in their renames.
C9_Witness ==
    /\ pc = "done"
    /\ Len(pairs) = 3
    /\ PatchErrorAt(1)
    /\ Len(errorList) = 5
    /\ Len(events) = 7

\* C10: the message of a run that got past pair building shows the first
\* min(E, 5) recorded errors in order, has the overflow line, giving E - 5,
\* exactly when E > 5, and is the summary line alone when E = 0.
IsErrorLine(l) == l[1] = "error"
IsMoreLine(l) == l[1] = "more"
C10_MessageShowsFirstFive ==
    (pc = "done" /\ Paired0) =>
        LET msg == Terminal[3]
            E == Len(errorList)
            shown == IF E < 5 THEN E ELSE 5
        IN  /\ SelectSeq(msg, IsErrorLine) = [i \in 1..shown |-> <<"error", errorList[i]>>]
            /\ SelectSeq(msg, IsMoreLine) =
                    (IF E > 5 THEN << <<"more", E - 5>> >> ELSE <<>>)
            /\ E = 0 => Len(msg) = 1

C10_Witness ==
    /\ pc = "done"
    /\ Paired0
    /\ Len(errorList) = 6
    /\ Terminal[3][Len(Terminal[3])] = <<"more", 1>>

\* C11: a failing annotation rename records one error, tagged with the
\* annotation, and is followed by the image rename of the same pair; the
\* image rename is attempted whenever it is reached; a failing image rename
\* records one error, tagged with the image, and is followed by the next pair
\* (or the end of the loop after the last pair).
C11_RenameFailuresAreIsolated ==
    [][ /\ (pc = "renameAnn" /\ errorList' # errorList) =>
            /\ Len(errorList') = Len(errorList) + 1
            /\ IsPrefix(errorList, errorList')
            /\ errorList'[Len(errorList')][1] = "renameAnn"
            /\ errorList'[Len(errorList')][2] = annFile
            /\ pc' = "renameImg"
            /\ idx' = idx
        /\ pc = "renameAnn" => pc' = "renameImg"
        /\ pc = "renameImg" =>
            /\ fsOps'[Len(fsOps')] =
                    <<"rename", "imgDir", imgFile, Str(idx) \o Lower(SplitExt(imgFile)[2])>>
            /\ IF idx < Len(pairs) THEN pc' = "patch" /\ idx' = idx + 1
                                   ELSE pc' = "finish"
        /\ (pc = "renameImg" /\ errorList' # errorList) =>
            /\ Len(errorList') = Len(errorList) + 1
            /\ IsPrefix(errorList, errorList')
            /\ errorList'[Len(errorList')][1] = "renameImg"
            /\ errorList'[Len(errorList')][2] = imgFile
      ]_vars

\* Both annotation renames failed, both image renames were done.
C11_Witness ==
    /\ pc = "done"
    /\ Len(pairs) = 2
    /\ Len(errorList) = 2
    /\ errorList[1][1] = "renameAnn"
    /\ errorList[2][1] = "renameAnn"
    /\ currentProgress = 4
    /\ pairs[1][2] \in RenameSources
    /\ pairs[2][2] \in RenameSources

\* C12: after a run that reports success, every i.xml, i in 1..N, exists and
\* its filename element names a file the image directory holds.
C12_CrossReferencesConsistent ==
    (pc = "done" /\ Paired0 /\ Terminal[2] = TRUE) =>
        \A i \in 1..Len(pairs) :
            /\ Str(i) \o DotXml \in Names(annFS)
            /\ annFS[Str(i) \o DotXml].filename \in Names(imgFS)

\* C13: after a run that reports success the annotation directory holds N
\* annotation files and the image directory N image files, and the i-th
\* original annotation and image are the files named i.xml and i<ext>.
C13_NoPairedFileLost ==
    (pc = "done" /\ Paired0 /\ Terminal[2] = TRUE) =>
        LET N == Len(pairs)
        IN  /\ Cardinality({f \in Names(annFS) : IsAnnFile(f)}) = N
            /\ Cardinality({g \in Names(imgFS) : IsImgFile(g)}) = N
            /\ \A i \in 1..N :
                LET newAnn == Str(i) \o DotXml
                    newImg == Str(i) \o Lower(SplitExt(pairs[i][2])[2])
                IN  /\ newAnn \in Names(annFS)
                    /\ annFS[newAnn].body = pairs[i][1]
                    /\ newImg \in Names(imgFS)
                    /\ imgFS[newImg].data = pairs[i][2]

\* C14: in the order of the file-system calls, the steps go pair by pair in
\* increasing index and, within a pair, patch, annotation rename, image
\* rename; each step is taken at most once, and a rename of a pair comes
\* only after that pair's annotation was written back.
IsStepOp(o) == o[1] \in {"parse", "write", "rename"}
StepOps == SelectSeq(fsOps, IsStepOp)
StepFile(o) == IF o[1] = "rename" THEN o[3] ELSE o[2]
PairIndex(o) == CHOOSE j \in 1..Len(pairs) : StepFile(o) \in {pairs[j][1], pairs[j][2]}
StepNo(o) == IF o[1] # "rename" THEN 1 ELSE IF o[2] = "annDir" THEN 2 ELSE 3
C14_StepsInOrder ==
    /\ \A k \in 1..Len(StepOps) :
            \E j \in 1..Len(pairs) : StepFile(StepOps[k]) \in {pairs[j][1], pairs[j][2]}
    /\ \A k, l \in 1..Len(StepOps) : k < l =>
            \/ PairIndex(StepOps[k]) < PairIndex(StepOps[l])
            \/ /\ PairIndex(StepOps[k]) = PairIndex(StepOps[l])
               /\ StepNo(StepOps[k]) <= StepNo(StepOps[l])
               /\ StepOps[k][1] # StepOps[l][1] \/ StepNo(StepOps[k]) < StepNo(StepOps[l])
    /\ \A l \in 1..Len(StepOps) : StepOps[l][1] = "rename" =>
            \E k \in 1..(l - 1) :
                StepOps[k] = <<"write", pairs[PairIndex(StepOps[l])][1]>>
    /\ pc \in {"patch", "renameAnn", "renameImg"} =>
            \A k \in 1..Len(StepOps) : PairIndex(StepOps[k]) <= idx

\* Three pairs: the first and third fully processed, the second not parsing.
C14_Witness ==
    /\ pc = "done"
    /\ Len(pairs) = 3
    /\ Len(errorList) = 1
    /\ PatchErrorAt(2)
    /\ currentProgress = 6
    /\ Len(StepOps) = 9

\* C15: past pair building the progress events start at (0, 3N), go up by
\* one, never pass 3N, and at the end the last one stands at
\* 3N - 3 * (failed patches) - (failed renames), which is 3N exactly when the
\* run reports success.
IsPatchError(e) == e[1] = "patch"
IsRenameError(e) == e[1] \in {"renameAnn", "renameImg"}
C15_ProgressMatchesErrors ==
    (Paired0 /\ pc \notin {"check", "build"}) =>
        LET N == Cardinality(AnnCandidates0)
            last == ProgressEvents[Len(ProgressEvents)]
        IN  /\ ProgressEvents # <<>>
            /\ ProgressEvents[1] = <<"progress", 0, 3 * N>>
            /\ \A k \in 1..(Len(ProgressEvents) - 1) :
                    ProgressEvents[k + 1][2] = ProgressEvents[k][2] + 1
            /\ \A k \in 1..Len(ProgressEvents) :
                    ProgressEvents[k][2] <= ProgressEvents[k][3]
            /\ last[2] = currentProgress
            /\ pc = "done" =>
                /\ last[2] = 3 * N - 3 * Len(SelectSeq(errorList, IsPatchError))
                                   - Len(SelectSeq(errorList, IsRenameError))
                /\ last[2] = last[3] <=> Terminal[2] = TRUE

\* Three pairs, one failed patch and three failed renames: 9 - 3 - 3 = 3.
C15_Witness ==
    /\ pc = "done"
    /\ Len(pairs) = 3
    /\ Len(SelectSeq(errorList, IsPatchError)) = 1
    /\ Len(SelectSeq(errorList, IsRenameError)) = 3
    /\ ProgressEvents[Len(ProgressEvents)] = <<"progress", 3, 9>>

\* C16: a file whose name does not end in .xml (annotation directory) or
\* whose extension is none of .jpg, .jpeg, .png (image directory), in any
\* letter case, is never listed, paired, written, renamed or deleted: it is
\* in its directory, unchanged, in every state, and no call names it.
NonMatchingAnn0 ==
    {f \in Names(annFS0) :
        \/ Len(f) < 4
        \/ Lower(SubSeq(f, Len(f) - 3, Len(f))) # <<".", "x", "m", "l">>}
NonMatchingImg0 ==
    {g \in Names(imgFS0) :
        Lower(SplitExt(g)[2]) \notin { <<".", "j", "p", "g">>,
                                       <<".", "j", "p", "e", "g">>,
                                       <<".", "p", "n", "g">> }}
OpNames(o) == IF o[1] \in {"parse", "write"} THEN {o[2]}
              ELSE IF o[1] \in {"exists", "remove"} THEN {o[3]}
              ELSE IF o[1] = "rename" THEN {o[3], o[4]}
              ELSE {}
OpDir(o) == IF o[1] \in {"parse", "write"} THEN "annDir" ELSE o[2]
C16_NonMatchingFilesUntouched ==
    /\ \A f \in NonMatchingAnn0 :
        /\ f \in Names(annFS) /\ annFS[f] = annFS0[f]
        /\ \A i \in 1..Len(annList) : annList[i] # f
        /\ \A i \in 1..Len(pairs) : pairs[i][1] # f
        /\ \A k \in 1..Len(fsOps) :
                OpDir(fsOps[k]) = "annDir" => f \notin OpNames(fsOps[k])
    /\ \A g \in NonMatchingImg0 :
        /\ g \in Names(imgFS) /\ imgFS[g] = imgFS0[g]
        /\ \A i \in 1..Len(imgList) : imgList[i] # g
        /\ \A i \in 1..Len(pairs) : pairs[i][2] # g
        /\ \A k \in 1..Len(fsOps) :
                OpDir(fsOps[k]) = "imgDir" => g \notin OpNames(fsOps[k])
    /\ (DirsExist /\ pc \notin {"check", "build"}) =>
        /\ Len(annList) = Cardinality(Names(annFS0) \ NonMatchingAnn0)
        /\ Len(imgList) = Cardinality(Names(imgFS0) \ NonMatchingImg0)

\* Both directories hold a .txt file next to two pairs, and a collision
\* delete happened in each directory.
C16_Witness ==
    /\ pc = "done"
    /\ NonMatchingAnn0 # {}
    /\ NonMatchingImg0 # {}
    /\ Len(pairs) = 2
    /\ \E k \in 1..Len(fsOps) : fsOps[k][1] = "remove" /\ fsOps[k][2] = "annDir"
    /\ \E k \in 1..Len(fsOps) : fsOps[k][1] = "remove" /\ fsOps[k][2] = "imgDir"

\* C17: never more than one worker has a run in progress; the start button
\* is disabled in the step that starts a worker, is disabled exactly from
\* then until the worker's terminal event has been handled, is enabled again
\* only by that handler, and is always enabled again in the end.
C17_ButtonGuardsWorker ==
    /\ active <= 1
    /\ active = 1 => ~startEnabled
    /\ ~startEnabled <=> (runs > 0 /\ ~(pc = "done" /\ handled = Len(events)))
C17_OneRunAtATime ==
    /\ []C17_ButtonGuardsWorker
    /\ [][active' > active => (startEnabled /\ ~startEnabled' /\ pc' = "check")]_vars
    /\ [][(~startEnabled /\ startEnabled') =>
            (pc = "done" /\ IsFinished(events[handled + 1])
             /\ handled' = Len(events))]_vars
    /\ (~startEnabled) ~> startEnabled

\* The second run is over and the button is enabled again.
C17_Witness ==
    /\ runs = 2
    /\ pc = "done"
    /\ handled = Len(events)
    /\ startEnabled
    /\ active = 0
    /\ dialog \in {"information", "critical"}

====
